---- MODULE Spec2Model ----
(***************************************************************************)
(* Model of 3scale-labs/gateway-ng-controller.                             *)
(*                                                                         *)
(* Control plane (src/src/service.rs, src/src/threescale_auth.rs):         *)
(*   Service::export compiles a Service into a keyed list of Envoy         *)
(*   resources (clusters, listener with its HTTP filter chain).            *)
(* Data plane (src/wasm_filter/src/config.rs):                             *)
(*   a thread-local configuration cell, import_config, get_config and      *)
(*   Service::match_mapping_rule.                                          *)
(***************************************************************************)
EXTENDS Integers, Sequences, FiniteSets, TLC

VARIABLES
    service,    \* control plane: the Service handed to export (&self)
    env,        \* control plane: what the collaborators of export answer
    exported,   \* control plane: what export returned, NotRun before the call
    CONFIG,     \* data plane: the value inside the thread-local RefCell
    borrows,    \* data plane: borrows of CONFIG alive between two calls
    panicked,   \* data plane: a call panicked, the execution context is gone
    installed,  \* data plane (history): the Service of the last import that wrote CONFIG
    ret         \* data plane: the last call and what it returned

vars == <<service, env, exported, CONFIG, borrows, panicked, installed, ret>>

cpVars == <<service, env, exported>>
dpVars == <<CONFIG, borrows, panicked, installed, ret>>

(***************************************************************************)
(* Bounds of the model.                                                    *)
(***************************************************************************)
MaxRules == 2      \* longest proxy_rules list enumerated

(***************************************************************************)
(* Generic helpers: Option, Result, sequences.                             *)
(***************************************************************************)
None == [some |-> FALSE]
Some(x) == [some |-> TRUE, v |-> x]

Ok(x) == [ok |-> TRUE, value |-> x]
Err(chain) == [ok |-> FALSE, err |-> chain]

\* anyhow's with_context / context: the new context becomes the outermost
\* entry of the error chain; an Ok passes through untouched.
WithContext(r, msg) == IF r.ok THEN r ELSE Err(<<msg>> \o r.err)

Range(s) == {s[i] : i \in DOMAIN s}

SeqsUpTo(S, n) == UNION {[1..k -> S] : k \in 0..n}

(***************************************************************************)
(* JSON documents, as serde_json reads and writes them.  A document is     *)
(* either text that is not JSON at all, or a JSON value.                   *)
(***************************************************************************)
JNull == [t |-> "null"]
JNum(n) == [t |-> "num", n |-> n]
JStr(s) == [t |-> "str", s |-> s]
JArr(a) == [t |-> "arr", a |-> a]
JObj(o) == [t |-> "obj", o |-> o]

Malformed == [valid |-> FALSE]
Doc(v) == [valid |-> TRUE, v |-> v]

(***************************************************************************)
(* Mapping rules, shared by both Service types.                            *)
(***************************************************************************)
Rule(p, m, n, d) ==
    [pattern |-> p, http_method |-> m, metric_system_name |-> n, delta |-> d]

Rules ==
    { Rule("/widgets", "GET", "hits", 1),
      Rule("/widgets", "GET", "hits", 5),
      Rule("/widgets", "GET", "reads", 2),
      Rule("/widgets", "POST", "writes", 2) }

RuleSeqs == SeqsUpTo(Rules, MaxRules)

Methods == {"GET", "POST"}
Paths == {"/widgets", "/gadgets"}

(***************************************************************************)
(* Control plane: the data model of src/src/service.rs and                 *)
(* src/src/threescale_auth.rs.                                             *)
(***************************************************************************)
WASM_FILTER_PATH == <<"static", "filter.wasm">>

\* A std::path::Path is its text, held as the pieces between the "/" of the
\* text: "plugins/auth.wasm" is <<"plugins", "auth.wasm">>, "/auth.wasm" is
\* <<"", "auth.wasm">>, "plugins/" is <<"plugins", "">>.
PlainAuthPaths ==
    { <<"static", "auth.wasm">>,      \* the asset lies in the served directory
      <<"plugins", "auth.wasm">> }    \* same file name, another directory

AuthPaths ==
    PlainAuthPaths \cup
    { <<"static", "..", "plugins", "auth.wasm">>,   \* the same file, by a detour
      <<"plugins", "..">>,            \* a path that ends in ".."
      <<".">>,                        \* the current directory: no file name
      <<"plugins", "">>,              \* a directory: it opens, reading it fails
      <<"", "auth.wasm">>,            \* an absolute path, nothing is there
      <<"static", "filter.wasm", "x">> }   \* a path that runs through a file

FilePaths == {WASM_FILTER_PATH, <<"static", "auth.wasm">>, <<"plugins", "auth.wasm">>}

TargetDomain == "backend.example.com:8080"
BackendUrl == "https://su1.3scale.net/"
Issuer == "https://keycloak.example.com/auth/realms/master"

ClusterNames ==
    { "threescale_backend",           \* an ordinary backend cluster name
      "oidc_cluster",                 \* the name the identity adapter may also return
      "service::id::1::cluster" }     \* the reserved key of service 1

Backend(name) == [cluster_name |-> name, url |-> BackendUrl]
ThreescaleAuth(path, name) == [path |-> path, wasm_config |-> [backend |-> Backend(name)]]

\* The plain paths come with every cluster name, the others with the
\* ordinary one.
AuthConfigs ==
    {ThreescaleAuth(p, n) : p \in PlainAuthPaths, n \in ClusterNames}
        \cup {ThreescaleAuth(p, "threescale_backend") : p \in AuthPaths}

PoliciyConfig(name) == [name |-> name, configuration |-> JObj([limit |-> JNum(10)])]

PolicyLists == { <<>>, <<PoliciyConfig("rate_limit")>> }

ExportRules == { Rule("/widgets", "GET", "hits", 1), Rule("/widgets", "POST", "writes", 2) }

Services ==
    [ id : {1, 2},
      hosts : { <<"api.example.com">> },
      policies : PolicyLists,
      target_domain : {TargetDomain},
      proxy_rules : SeqsUpTo(ExportRules, MaxRules),
      oidc_issuer : {None, Some(Issuer)},
      auth_config : {None} \cup {Some(a) : a \in AuthConfigs} ]

(***************************************************************************)
(* What the collaborators of export answer: which targets the cluster      *)
(* builder rejects, what identity discovery returns, which message kinds   *)
(* the encoder rejects, and the files on disk (0: no such file, negative:  *)
(* a directory, otherwise an identifier of the file's bytes).              *)
(***************************************************************************)
MessageKinds == {"JwtAuthentication", "Router", "StringValue", "Wasm", "HttpConnectionManager"}

\* The directory the control plane runs in, as the names from the root.
WorkDir == <<"app">>

\* The disk is a tree: every entry is named by the names from the root down.
\* A directory is a negative entry: it can be opened, not read.
Fs(filter, staticAuth, pluginsAuth) ==
    (<<>> :> -1) @@ (WorkDir :> -1)
        @@ (WorkDir \o <<"static">> :> -1) @@ (WorkDir \o <<"plugins">> :> -1)
        @@ (WorkDir \o <<"static", "filter.wasm">> :> filter)
        @@ (WorkDir \o <<"static", "auth.wasm">> :> staticAuth)
        @@ (WorkDir \o <<"plugins", "auth.wasm">> :> pluginsAuth)

FileSystems ==
    { Fs(1, 2, 3),    \* every asset present, the two auth.wasm differ
      Fs(1, 3, 3),    \* plugins/auth.wasm was copied to static/
      Fs(1, 0, 3),    \* nothing served under static/auth.wasm
      Fs(0, 2, 3),    \* the bundled metering asset is missing
      Fs(1, 2, 0) }   \* the auth plugin's file is missing

OidcAnswers ==
    { [ok |-> FALSE, cluster_name |-> ""],
      [ok |-> TRUE, cluster_name |-> "oidc_cluster"] }

Envs ==
    [ unresolvable : SUBSET {TargetDomain, BackendUrl},
      oidc : OidcAnswers,
      unencodable : {{}} \cup {{k} : k \in MessageKinds},
      fs : FileSystems ]

NotRun == [run |-> FALSE]
Returned(r) == [run |-> TRUE, result |-> r]

(***************************************************************************)
(* Collaborators of export that live outside src/.                         *)
(***************************************************************************)
\* envoy_helpers::get_envoy_cluster(name, target): a cluster named `name`.
get_envoy_cluster(name, target, e) ==
    IF target \in e.unresolvable
    THEN Err(<<"invalid cluster target " \o target>>)
    ELSE Ok([name |-> name, target |-> target])

\* envoy_helpers::encode(message): the message's bytes, which determine it.
encode(kind, msg, e) ==
    IF kind \in e.unencodable
    THEN Err(<<"failed to encode " \o kind>>)
    ELSE Ok(msg)

\* OIDCConfig::new(issuer).export(id): the JWT filter and the provider's cluster.
OIDCConfig_export(issuer, id, e) ==
    IF e.oidc.ok
    THEN Ok([filter |-> [issuer |-> issuer, service |-> id],
             cluster |-> [name |-> e.oidc.cluster_name, target |-> issuer]])
    ELSE Err(<<"oidc discovery failed for " \o issuer>>)

\* util::file_utils::sha256_digest(reader): the digest bytes of what the
\* reader yields (one byte stands for the 32; distinct contents get distinct
\* digests), or the read error when the opened path is a directory.
sha256_digest(reader) ==
    IF reader < 0
    THEN Err(<<"Is a directory">>)
    ELSE Ok(<< (reader * 37 + 171) % 256 >>)

(***************************************************************************)
(* serde_json::to_string(&Service) of src/src/service.rs: every field of   *)
(* the derive(Serialize) structs, an Option as null or its value.          *)
(***************************************************************************)
\* Path::display: the text of the path, its pieces joined by "/".
RECURSIVE display(_)
display(path) ==
    IF Len(path) = 0 THEN ""
    ELSE IF Len(path) = 1 THEN path[1]
    ELSE path[1] \o "/" \o display(Tail(path))

RuleToJson(r) ==
    JObj([pattern |-> JStr(r.pattern), http_method |-> JStr(r.http_method),
          metric_system_name |-> JStr(r.metric_system_name), delta |-> JNum(r.delta)])

PolicyToJson(p) == JObj([name |-> JStr(p.name), configuration |-> p.configuration])

AuthToJson(a) ==
    JObj([path |-> JStr(display(a.path)),
          wasm_config |-> JObj([backend |->
              JObj([cluster_name |-> JStr(a.wasm_config.backend.cluster_name),
                    url |-> JStr(a.wasm_config.backend.url)])])])

ServiceToJson(s) ==
    Doc(JObj([id |-> JNum(s.id),
              hosts |-> JArr([i \in DOMAIN s.hosts |-> JStr(s.hosts[i])]),
              policies |-> JArr([i \in DOMAIN s.policies |-> PolicyToJson(s.policies[i])]),
              target_domain |-> JStr(s.target_domain),
              proxy_rules |-> JArr([i \in DOMAIN s.proxy_rules |-> RuleToJson(s.proxy_rules[i])]),
              oidc_issuer |-> IF s.oidc_issuer.some THEN JStr(s.oidc_issuer.v) ELSE JNull,
              auth_config |-> IF s.auth_config.some THEN AuthToJson(s.auth_config.v) ELSE JNull]))

(***************************************************************************)
(* Paths and the content hash.                                             *)
(***************************************************************************)
\* Path::has_root: the text starts with "/".
has_root(path) == Len(path) >= 2 /\ path[1] = ""

\* Path::components: "/" for the root, then the pieces of the text without
\* the empty ones and without ".", save for a "." that leads a relative path.
components(path) ==
    LET Kept(s) == s \notin {"", "."}
        lead == IF ~has_root(path) /\ Len(path) >= 1 /\ path[1] = "."
                THEN <<".">> ELSE <<>>
    IN  (IF has_root(path) THEN <<"/">> ELSE <<>>) \o lead \o SelectSeq(path, Kept)

\* Path::file_name: the last component when it is a normal one; None for
\* a path without components and for one that ends in "..", "." or the root.
file_name(path) ==
    LET c == components(path) IN
    IF Len(c) = 0 \/ c[Len(c)] \in {"..", ".", "/"}
    THEN None
    ELSE Some(c[Len(c)])

HEXUPPER_ALPHABET ==
    <<"0", "1", "2", "3", "4", "5", "6", "7", "8", "9", "A", "B", "C", "D", "E", "F">>

\* data_encoding::HEXUPPER.encode: two upper-case hex digits per byte.
HEXUPPER_encode(bytes) ==
    [i \in 1..(2 * Len(bytes)) |->
        IF i % 2 = 1
        THEN HEXUPPER_ALPHABET[(bytes[(i + 1) \div 2] \div 16) + 1]
        ELSE HEXUPPER_ALPHABET[(bytes[(i + 1) \div 2] % 16) + 1]]

to_lowercase_char(c) ==
    CASE c = "A" -> "a" [] c = "B" -> "b" [] c = "C" -> "c"
      [] c = "D" -> "d" [] c = "E" -> "e" [] c = "F" -> "f" [] OTHER -> c

to_lowercase(str) == [i \in DOMAIN str |-> to_lowercase_char(str[i])]

\* One step of the operating system's walk along a path: the entry reached
\* from the entry cur by one piece of the path's text.
step(cur, piece) ==
    IF piece \in {"", "."} THEN cur
    ELSE IF piece = ".." THEN SubSeq(cur, 1, Len(cur) - 1)
    ELSE Append(cur, piece)

\* The walk along the pieces of a path from the entry cur: the entry it ends
\* at, or the error of the first step that cannot be taken (out of a file,
\* or to an entry that is not there).
RECURSIVE walk(_, _, _)
RECURSIVE enter(_, _, _)
walk(pieces, cur, fs) ==
    IF pieces = <<>> THEN Ok(cur)
    ELSE IF fs[cur] >= 0 THEN Err(<<"Not a directory">>)
    ELSE enter(Tail(pieces), step(cur, Head(pieces)), fs)

enter(pieces, next, fs) ==
    IF next \notin DOMAIN fs \/ fs[next] = 0
    THEN Err(<<"No such file or directory">>)
    ELSE walk(pieces, next, fs)

\* Where a path leads: from the root for an absolute path, from the working
\* directory otherwise; the empty path leads nowhere.
resolve(path, fs) ==
    IF path = <<>> \/ path = <<"">> THEN Err(<<"No such file or directory">>)
    ELSE IF has_root(path) THEN walk(Tail(path), <<>>, fs)
    ELSE walk(path, WorkDir, fs)

\* The reader File::open hands out for the entry a path leads to (a
\* directory opens too), or the error of the walk.
reader_of(entry, fs) == IF entry.ok THEN Ok(fs[entry.value]) ELSE entry

\* File::open(path)
File_open(path, e) == reader_of(resolve(path, e.fs), e.fs)

\* HEXUPPER.encode(result.as_ref()).to_lowercase(), unless the digest failed.
hex_of(result) ==
    IF ~result.ok THEN result
    ELSE Ok(to_lowercase(HEXUPPER_encode(result.value)))

\* The digest of what the opened file yields, unless the open failed.
digest_of(input) == IF ~input.ok THEN input ELSE hex_of(sha256_digest(input.value))

\* Service::get_wasm_filter_sha
get_wasm_filter_sha(path, e) ==
    digest_of(WithContext(File_open(path, e),
                          "failed to open wasm filter: " \o display(path)))

(***************************************************************************)
(* src/src/threescale_auth.rs                                              *)
(***************************************************************************)
HttpUri(path) ==
    [authority |-> "http://control-plane-main:5001", path |-> path,
     timeout_seconds |-> 100, cluster |-> "wasm_files"]

\* Backend::cluster
Backend_cluster(b, e) == get_envoy_cluster(b.cluster_name, b.url, e)

\* ThreescaleAuth::cluster
ThreescaleAuth_cluster(a, e) == Backend_cluster(a.wasm_config.backend, e)

\* get_wasm_filter(path, auth_config, id)
get_wasm_filter(path, auth_config, id, e) ==
    LET filename == file_name(path) IN
    IF ~filename.some
    THEN Err(<<"failed to obtain file name of " \o display(path)>>)
    ELSE
    LET vm_configuration == encode("StringValue", [text |-> "vm config"], e) IN
    IF ~vm_configuration.ok THEN vm_configuration
    ELSE
    LET sha == WithContext(get_wasm_filter_sha(path, e), "could not compute SHA-256") IN
    IF ~sha.ok THEN sha
    ELSE
    LET configuration == encode("StringValue", [text |-> auth_config], e) IN
    IF ~configuration.ok THEN configuration
    ELSE Ok([name |-> "Service::" \o ToString(id),
             root_id |-> "Service::" \o ToString(id),
             vm_id |-> "Service::" \o ToString(id),
             runtime |-> "envoy.wasm.runtime.v8",
             vm_configuration |-> vm_configuration.value,
             code |-> [http_uri |-> HttpUri(<<"static", filename.v>>), sha256 |-> sha.value],
             configuration |-> Some(configuration.value)])

\* ThreescaleAuth::build_wasm: serde_json::to_string_pretty(&self.wasm_config),
\* then get_wasm_filter.
build_wasm(a, id, e) ==
    get_wasm_filter(a.path,
                    JObj([backend |-> JObj([cluster_name |-> JStr(a.wasm_config.backend.cluster_name),
                                            url |-> JStr(a.wasm_config.backend.url)])]),
                    id, e)

(***************************************************************************)
(* src/src/service.rs                                                      *)
(***************************************************************************)
EnvoyExport(key, kind, config) == [key |-> key, kind |-> kind, config |-> config]

HttpFilter(name, type_url, value) == [name |-> name, type_url |-> type_url, value |-> value]

JWT_TYPE_URL ==
    "type.googleapis.com/envoy.extensions.filters.http.jwt_authn.v3.JwtAuthentication"
WASM_TYPE_URL == "type.googleapis.com/envoy.extensions.filters.http.wasm.v3.Wasm"
ROUTER_TYPE_URL == "type.googleapis.com/envoy.extensions.filters.http.router.v3.Router"

\* Service::cluster_name
cluster_name(s) == "Cluster::service::" \o ToString(s.id)

\* Service::export_clusters
export_clusters(s, e) == get_envoy_cluster(cluster_name(s), s.target_domain, e)

\* Service::oidc_import
oidc_import(s, e) ==
    IF s.oidc_issuer.some
    THEN Some(OIDCConfig_export(s.oidc_issuer.v, s.id, e))
    ELSE None

\* The WASM section of export_listener: the descriptor of the bundled
\* metering filter.  Its fields are evaluated in the order written.
wasm_filter(s, e) ==
    LET configuration == encode("StringValue", ServiceToJson(s), e) IN
    IF ~configuration.ok THEN configuration
    ELSE
    LET sha == WithContext(get_wasm_filter_sha(WASM_FILTER_PATH, e),
                           "could not compute SHA-256") IN
    IF ~sha.ok THEN sha
    ELSE Ok([name |-> "Service::" \o ToString(s.id),
             root_id |-> "Service::" \o ToString(s.id),
             vm_id |-> "Service::" \o ToString(s.id),
             runtime |-> "envoy.wasm.runtime.v8",
             vm_configuration |-> configuration.value,
             code |-> [http_uri |-> HttpUri(WASM_FILTER_PATH), sha256 |-> sha.value],
             configuration |-> None])

\* The billing/auth filter of export_listener, present when auth_config is.
auth_http_filter(s, e) ==
    IF ~s.auth_config.some THEN Ok(None)
    ELSE
    LET wasm == build_wasm(s.auth_config.v, s.id, e) IN
    IF ~wasm.ok THEN wasm
    ELSE
    LET value == encode("Wasm", wasm.value, e) IN
    IF ~value.ok THEN value
    ELSE Ok(Some(HttpFilter("envoy.filters.http.wasm", WASM_TYPE_URL, value.value)))

\* The pushes onto http_filters in export_listener, in the order of the code.
http_filters_wrong_order(http_filter, auth, metering, router) ==
    (IF http_filter.some THEN <<http_filter.v>> ELSE <<>>)
        \o <<metering>>
        \o (IF auth.some THEN <<auth.v>> ELSE <<>>)
        \o <<router>>

http_filters(http_filter, auth, metering, router) ==
    (IF http_filter.some THEN <<http_filter.v>> ELSE <<>>)
        \o (IF auth.some THEN <<auth.v>> ELSE <<>>)
        \o <<metering>>
        \o <<router>>

\* Service::export_listener
export_listener(s, http_filter, e) ==
    LET config == encode("Router", [router |-> "default"], e) IN
    IF ~config.ok THEN config
    ELSE
    LET wasm == wasm_filter(s, e) IN
    IF ~wasm.ok THEN wasm
    ELSE
    LET auth == auth_http_filter(s, e) IN
    IF ~auth.ok THEN auth
    ELSE
    LET metering == encode("Wasm", wasm.value, e) IN
    IF ~metering.ok THEN metering
    ELSE
    LET connection_manager ==
            [stat_prefix |-> "ingress_http",
             http_filters |->
                 http_filters(http_filter, auth.value,
                     HttpFilter("envoy.filters.http.wasm", WASM_TYPE_URL, metering.value),
                     HttpFilter("envoy.filters.http.router", ROUTER_TYPE_URL, config.value)),
             route_config |->
                 [name |-> "service_" \o ToString(s.id) \o "_route",
                  virtual_host |-> "service_" \o ToString(s.id) \o "_vhost",
                  domains |-> s.hosts,
                  prefix |-> "/",
                  cluster |-> cluster_name(s)]]
        encoded == encode("HttpConnectionManager", connection_manager, e)
    IN  IF ~encoded.ok THEN encoded
        ELSE Ok([name |-> "service " \o ToString(s.id),
                 address |-> "0.0.0.0",
                 port |-> 80,
                 filter_chains |->
                     << [filters |->
                           << [name |-> "envoy.filters.network.http_connection_manager",
                               value |-> encoded.value] >>] >>])

\* export, lines 92-111: the identity provider's cluster and the JWT filter.
\* Yields the grown result and the optional filter.
export_oidc(s, e, result) ==
    LET import == oidc_import(s, e) IN
    IF ~import.some THEN Ok([result |-> result, filter |-> None])
    ELSE IF ~import.v.ok THEN import.v
    ELSE
    LET oidc_filter == import.v.value.filter
        oidc_cluster == import.v.value.cluster
        value == encode("JwtAuthentication", oidc_filter, e)
    IN  IF ~value.ok THEN value
        ELSE Ok([result |-> Append(result, EnvoyExport(oidc_cluster.name, "Cluster", oidc_cluster)),
                 filter |-> Some(HttpFilter("envoy.filters.http.jwt_authn", JWT_TYPE_URL,
                                            value.value))])

\* export, lines 116-122: the billing/auth backend cluster.
export_auth_skips_failure(s, e, result) ==
    IF ~s.auth_config.some THEN Ok(result)
    ELSE
    LET auth_cluster == ThreescaleAuth_cluster(s.auth_config.v, e) IN
    IF ~auth_cluster.ok THEN Ok(result)
    ELSE Ok(Append(result, EnvoyExport(auth_cluster.value.name, "Cluster", auth_cluster.value)))

export_auth(s, e, result) ==
    IF ~s.auth_config.some THEN Ok(result)
    ELSE
    LET auth_cluster == ThreescaleAuth_cluster(s.auth_config.v, e) IN
    IF ~auth_cluster.ok THEN auth_cluster
    ELSE Ok(Append(result, EnvoyExport(auth_cluster.value.name, "Cluster", auth_cluster.value)))

\* Service::export
export(s, e) ==
    LET cluster == WithContext(export_clusters(s, e),
                       "failed to export cluster for service " \o ToString(s.id)) IN
    IF ~cluster.ok THEN cluster
    ELSE
    LET result1 == << EnvoyExport("service::id::" \o ToString(s.id) \o "::cluster",
                                  "Cluster", cluster.value) >>
        oidc == export_oidc(s, e, result1)
    IN
    IF ~oidc.ok THEN oidc
    ELSE
    LET auth == export_auth(s, e, oidc.value.result) IN
    IF ~auth.ok THEN auth
    ELSE
    LET listener == WithContext(export_listener(s, oidc.value.filter, e),
                        "failed to export listener for service " \o ToString(s.id))
    IN  IF ~listener.ok THEN listener
        ELSE Ok(Append(auth.value,
                       EnvoyExport("service::id::" \o ToString(s.id) \o "::listener",
                                   "Listener", listener.value)))

(***************************************************************************)
(* Data plane: src/wasm_filter/src/config.rs                               *)
(***************************************************************************)
\* Service::default()
DefaultService ==
    [id |-> 0, hosts |-> <<>>, policies |-> <<>>, target_domain |-> "", proxy_rules |-> <<>>]

IsStr(v) == v.t = "str"
IsStrArr(v) == v.t = "arr" /\ \A i \in DOMAIN v.a : IsStr(v.a[i])
IsU32(v) == v.t = "num" /\ v.n >= 0

\* How derive(Deserialize) reads a struct with the given fields: from a JSON
\* object by field name (visit_map: every field must be there, others are
\* ignored), or from a JSON array holding exactly the fields in declaration
\* order (visit_seq).  None when the value gives no such set of fields.
StructFields(v, names) ==
    IF v.t = "obj"
    THEN IF Range(names) \subseteq DOMAIN v.o
         THEN Some([k \in Range(names) |-> v.o[k]])
         ELSE None
    ELSE IF v.t = "arr" /\ Len(v.a) = Len(names)
    THEN Some([k \in Range(names) |-> v.a[CHOOSE i \in DOMAIN names : names[i] = k]])
    ELSE None

MappingRuleFields == <<"pattern", "http_method", "metric_system_name", "delta">>
ServiceFields == <<"id", "hosts", "policies", "target_domain", "proxy_rules">>

\* Deserialize for MappingRule: the four fields, each of its type.
IsRule(v) ==
    LET f == StructFields(v, MappingRuleFields) IN
    /\ f.some
    /\ IsStr(f.v["pattern"]) /\ IsStr(f.v["http_method"])
    /\ IsStr(f.v["metric_system_name"])
    /\ IsU32(f.v["delta"])

RuleFromJson(v) ==
    LET f == StructFields(v, MappingRuleFields).v IN
    Rule(f["pattern"].s, f["http_method"].s, f["metric_system_name"].s, f["delta"].n)

StrOf(v) == v.s

\* serde_json::from_str::<Service>: every field of the struct must be there
\* with its type (policies: Vec<String>); fields the struct does not have
\* are ignored; a JSON array of the five fields in order is read as well.
Service_from_str(doc) ==
    IF ~doc.valid THEN Err(<<"expected value at line 1 column 1">>)
    ELSE IF doc.v.t \notin {"obj", "arr"}
    THEN Err(<<"invalid type, expected struct Service">>)
    ELSE IF ~StructFields(doc.v, ServiceFields).some
    THEN Err(<<IF doc.v.t = "obj" THEN "missing field" ELSE "invalid length">>)
    ELSE
    LET o == StructFields(doc.v, ServiceFields).v IN
    IF ~(/\ IsU32(o.id)
         /\ IsStrArr(o.hosts)
         /\ IsStrArr(o.policies)
         /\ IsStr(o.target_domain)
         /\ o.proxy_rules.t = "arr"
         /\ \A i \in DOMAIN o.proxy_rules.a : IsRule(o.proxy_rules.a[i]))
    THEN Err(<<"invalid type">>)
    ELSE Ok([id |-> o.id.n,
             hosts |-> [i \in DOMAIN o.hosts.a |-> StrOf(o.hosts.a[i])],
             policies |-> [i \in DOMAIN o.policies.a |-> StrOf(o.policies.a[i])],
             target_domain |-> o.target_domain.s,
             proxy_rules |-> [i \in DOMAIN o.proxy_rules.a |-> RuleFromJson(o.proxy_rules.a[i])]])

\* MappingRule::matches
matches_ignores_method(rule, method, path) ==
    IF rule.pattern # path THEN FALSE
    ELSE TRUE

matches(rule, method, path) ==
    IF rule.http_method # method THEN FALSE
    ELSE IF rule.pattern # path THEN FALSE
    ELSE TRUE

\* A HashMap<String, u32> is a set of <<key, value>> pairs with distinct keys.
EmptyMap == {}
Keys(m) == {p[1] : p \in m}
Get(m, k) == (CHOOSE p \in m : p[1] = k)[2]

\* HashMap::insert: the value of an existing key is replaced.
insert_sums(m, k, v) ==
    IF k \in Keys(m)
    THEN {p \in m : p[1] # k} \cup {<<k, Get(m, k) + v>>}
    ELSE m \cup {<<k, v>>}

insert(m, k, v) == {p \in m : p[1] # k} \cup {<<k, v>>}

\* The loop of match_mapping_rule over the first n rules.
RECURSIVE metrics_after(_, _, _, _)
metrics_after(rules, n, method, path) ==
    IF n = 0 THEN EmptyMap
    ELSE LET before == metrics_after(rules, n - 1, method, path)
             mapping_rule == rules[n]
         IN  IF matches(mapping_rule, method, path)
             THEN insert(before, mapping_rule.metric_system_name, mapping_rule.delta)
             ELSE before

\* serde_json::to_string(&metrics): the entries in the map's iteration
\* order, which HashMap does not fix.  "{}" is the empty sequence.
Serializations(m) ==
    {s \in [1..Cardinality(m) -> m] : Range(s) = m}

\* Service::match_mapping_rule: the results the call may return.
match_mapping_rule(self, method, path) ==
    LET metrics == metrics_after(self.proxy_rules, Len(self.proxy_rules), method, path) IN
    IF Cardinality(metrics) > 0
    THEN {[matched |-> TRUE, json |-> s] : s \in Serializations(metrics)}
    ELSE {[matched |-> FALSE, json |-> s] : s \in Serializations(metrics)}

\* RefCell::try_borrow_mut: refused while any borrow is alive.
try_borrow_mut(b) == b = 0

\* An import that replaces one field of the cell and leaves the others.
import_config_field_by_field(config, cell, b) ==
    LET service_ == Service_from_str(config) IN
    IF ~service_.ok
    THEN [panic |-> TRUE, cell |-> cell, wrote |-> FALSE, returned |-> None]
    ELSE [panic |-> FALSE, cell |-> [cell EXCEPT !.proxy_rules = service_.value.proxy_rules],
          wrote |-> TRUE, returned |-> Some(service_.value)]

\* import_config: what it does to the cell and what the caller gets.
\* unwrap() on a parse error panics before the cell is touched.
import_config(config, cell, b) ==
    LET service_ == Service_from_str(config) IN
    IF ~service_.ok
    THEN [panic |-> TRUE, cell |-> cell, wrote |-> FALSE, returned |-> None]
    ELSE IF try_borrow_mut(b)
    THEN [panic |-> FALSE, cell |-> service_.value, wrote |-> TRUE,
          returned |-> Some(service_.value)]
    ELSE [panic |-> FALSE, cell |-> cell, wrote |-> FALSE,
          returned |-> Some(service_.value)]

\* get_config: a clone of the cell's value (a shared borrow, dropped inside
\* the call).
get_config(cell) == cell

(***************************************************************************)
(* The state machine.                                                      *)
(***************************************************************************)
\* Configuration documents handed to import_config on the data plane.
PlaneDoc(rules) ==
    Doc(JObj([id |-> JNum(7),
              hosts |-> JArr(<<JStr("api.example.com")>>),
              policies |-> JArr(<<>>),
              target_domain |-> JStr(TargetDomain),
              proxy_rules |-> JArr([i \in DOMAIN rules |-> RuleToJson(rules[i])])]))

\* A rule, and a Service, written as JSON arrays of their fields.
RuleToArray(r) ==
    JArr(<<JStr(r.pattern), JStr(r.http_method), JStr(r.metric_system_name), JNum(r.delta)>>)

ArrayDoc(rules) ==
    Doc(JArr(<<JNum(7), JArr(<<JStr("api.example.com")>>), JArr(<<>>), JStr(TargetDomain),
               JArr([i \in DOMAIN rules |-> RuleToArray(rules[i])])>>))

ArrayDocs ==
    { ArrayDoc(<<>>),
      ArrayDoc(<<Rule("/widgets", "GET", "hits", 1)>>) }

BadDocs ==
    { Malformed,                       \* text that is not JSON
      Doc(JObj([id |-> JNum(7)])),     \* a JSON object, but not a Service
      Doc(JArr(<<JNum(7)>>)),          \* a JSON array that is too short
      Doc(JStr("service")) }           \* a JSON string

ImportDocs == BadDocs \cup ArrayDocs \cup {PlaneDoc(rules) : rules \in RuleSeqs}

\* The state after construction of the data plane: CONFIG holds
\* Service::default(), nothing is borrowed, nothing was called.
InitPlaneState ==
    /\ CONFIG = DefaultService
    /\ borrows = 0
    /\ panicked = FALSE
    /\ installed = None
    /\ ret = [op |-> "none"]

\* The control plane before export is called on some Service.
InitExportState ==
    /\ service \in Services
    /\ env \in Envs
    /\ exported = NotRun

\* A control plane that compiles nothing, for the data plane taken alone.
IdleExportState ==
    /\ service = [id |-> 1, hosts |-> <<"api.example.com">>, policies |-> <<>>,
                  target_domain |-> TargetDomain, proxy_rules |-> <<>>,
                  oidc_issuer |-> None, auth_config |-> None]
    /\ env = [unresolvable |-> {}, oidc |-> [ok |-> FALSE, cluster_name |-> ""],
              unencodable |-> {}, fs |-> Fs(1, 2, 3)]
    /\ exported = NotRun

Init == InitExportState /\ InitPlaneState

\* Service::export, called once on the Service drawn at the start.
Export ==
    /\ ~exported.run
    /\ exported' = Returned(export(service, env))
    /\ UNCHANGED <<service, env>>
    /\ UNCHANGED dpVars

\* import_config(config)
ImportOf(config, from_export) ==
    /\ ~panicked
    /\ LET r == import_config(config, CONFIG, borrows) IN
         /\ CONFIG' = r.cell
         /\ panicked' = r.panic
         /\ installed' = IF r.wrote THEN r.returned ELSE installed
         /\ ret' = [op |-> "import_config", config |-> config, from_export |-> from_export,
                    guard_held |-> borrows > 0, before |-> CONFIG,
                    panic |-> r.panic, returned |-> r.returned]
    /\ UNCHANGED borrows
    /\ UNCHANGED cpVars

ImportConfig == \E config \in ImportDocs : ImportOf(config, FALSE)

\* The listener of a compiled bundle and the payload of its metering filter
\* (the filter before the router).
ListenerOf(bundle) == bundle[Len(bundle)].config
HttpFiltersOf(bundle) == ListenerOf(bundle).filter_chains[1].filters[1].value.http_filters
MeteringOf(bundle) == HttpFiltersOf(bundle)[Len(HttpFiltersOf(bundle)) - 1].value

\* The data plane imports the configuration embedded in the compiled
\* metering filter.
ImportExported ==
    /\ exported.run
    /\ exported.result.ok
    /\ ImportOf(MeteringOf(exported.result.value).vm_configuration, TRUE)

\* get_config()
GetConfig ==
    /\ ~panicked
    /\ ret' = [op |-> "get_config", value |-> get_config(CONFIG)]
    /\ UNCHANGED <<CONFIG, borrows, panicked, installed>>
    /\ UNCHANGED cpVars

\* get_config().match_mapping_rule(method, path)
Match ==
    /\ ~panicked
    /\ \E method \in Methods, path \in Paths :
         \E r \in match_mapping_rule(get_config(CONFIG), method, path) :
            ret' = [op |-> "match", method |-> method, path |-> path,
                    used |-> get_config(CONFIG),
                    matched |-> r.matched, json |-> r.json]
    /\ UNCHANGED <<CONFIG, borrows, panicked, installed>>
    /\ UNCHANGED cpVars

\* The control plane: one export of one Service.
NextExport == Export
SpecExport == Init /\ [][NextExport]_vars

\* The data plane as config.rs runs it: CONFIG is private to the file, and
\* every borrow it takes is dropped inside the call that took it.
NextPlane == ImportConfig \/ GetConfig \/ Match
InitPlane == IdleExportState /\ InitPlaneState
SpecPlane == InitPlane /\ [][NextPlane]_vars

\* The compiled configuration handed from the control plane to the data plane.
NextRoundTrip == Export \/ ImportExported
SpecRoundTrip == Init /\ [][NextRoundTrip]_vars

\* The whole system.  The two planes share no state: the only thing that
\* passes between them is the configuration embedded by export, so the
\* properties of each plane are checked under its own specification above,
\* and the hand-over under SpecRoundTrip.
Next == Export \/ ImportExported \/ ImportConfig \/ GetConfig \/ Match
Spec == Init /\ [][Next]_vars

(***************************************************************************)
(* Vocabulary of the properties.                                           *)
(***************************************************************************)
Succeeded == exported.run /\ exported.result.ok
Failed == exported.run /\ ~exported.result.ok

\* The entries the caller of export receives.
Bundle == IF Succeeded THEN exported.result.value ELSE <<>>

HasOidc == service.oidc_issuer.some
HasAuth == service.auth_config.some

ClusterKey == "service::id::" \o ToString(service.id) \o "::cluster"
ListenerKey == "service::id::" \o ToString(service.id) \o "::listener"

IsJwtFilter(f) == f.name = "envoy.filters.http.jwt_authn" /\ f.type_url = JWT_TYPE_URL
IsRouterFilter(f) == f.name = "envoy.filters.http.router" /\ f.type_url = ROUTER_TYPE_URL
IsWasmFilter(f) == f.name = "envoy.filters.http.wasm" /\ f.type_url = WASM_TYPE_URL
\* The billing/auth plugin carries a plugin configuration; the bundled
\* metering filter carries the serialized Service and runs static/filter.wasm.
IsAuthFilter(f) == IsWasmFilter(f) /\ f.value.configuration.some
IsMeteringFilter(f) ==
    /\ IsWasmFilter(f)
    /\ ~f.value.configuration.some
    /\ f.value.code.http_uri.path = WASM_FILTER_PATH
    /\ f.value.vm_configuration = ServiceToJson(service)

CountWhere(s, P(_)) == Cardinality({i \in DOMAIN s : P(s[i])})

(***************************************************************************)
(* C1. After a successful export the listener's HTTP filters are, in this  *)
(* order: the JWT filter iff oidc_issuer is set, the billing/auth filter   *)
(* iff auth_config is set, the metering filter, the router filter; the     *)
(* router filter occurs once and is last.                                  *)
(***************************************************************************)
C1_FilterOrder ==
    Succeeded =>
        LET F == HttpFiltersOf(Bundle)
            j == IF HasOidc THEN 1 ELSE 0
            a == IF HasAuth THEN 1 ELSE 0
        IN  /\ Len(F) = j + a + 2
            /\ HasOidc => IsJwtFilter(F[1])
            /\ HasAuth => IsAuthFilter(F[j + 1])
            /\ IsMeteringFilter(F[j + a + 1])
            /\ IsRouterFilter(F[Len(F)])
            /\ CountWhere(F, IsRouterFilter) = 1
            /\ CountWhere(F, IsJwtFilter) = j
            /\ CountWhere(F, IsAuthFilter) = a
            /\ CountWhere(F, IsMeteringFilter) = 1

\* Both optional filters present: four filters were composed.
C1_Witness ==
    /\ Succeeded /\ HasOidc /\ HasAuth
    /\ Len(HttpFiltersOf(Bundle)) = 4
    /\ IsAuthFilter(HttpFiltersOf(Bundle)[2])

(***************************************************************************)
(* C2. A successful export returns exactly 2 + n entries, n the number of  *)
(* optional adapters invoked, and the keys service::id::<id>::cluster and  *)
(* service::id::<id>::listener each occur exactly once.                    *)
(***************************************************************************)
KeyIs(k, entry) == entry.key = k
CountKey(k) == Cardinality({i \in DOMAIN Bundle : KeyIs(k, Bundle[i])})

C2_BundleSize ==
    Succeeded =>
        /\ Len(Bundle) = 2 + (IF HasOidc THEN 1 ELSE 0) + (IF HasAuth THEN 1 ELSE 0)
        /\ CountKey(ClusterKey) = 1
        /\ CountKey(ListenerKey) = 1

(***************************************************************************)
(* C3. No two entries of the list a successful export returns have the     *)
(* same key.                                                               *)
(***************************************************************************)
C3_UniqueKeys ==
    Succeeded =>
        \A i, k \in DOMAIN Bundle : i # k => Bundle[i].key # Bundle[k].key

(***************************************************************************)
(* C4. Export is all-or-nothing: when a step of export fails on the given  *)
(* Service (service cluster, identity discovery, an encoding, the          *)
(* billing/auth backend cluster, the listener with its plugins, the        *)
(* metering asset), export returns an error and the caller receives no     *)
(* entry; a set auth_config whose cluster cannot be built never yields a   *)
(* bundle.                                                                 *)
(***************************************************************************)
AuthClusterFails == HasAuth /\ service.auth_config.v.wasm_config.backend.url \in env.unresolvable

AuthPluginFails ==
    /\ HasAuth
    /\ \/ ~file_name(service.auth_config.v.path).some
       \/ ~resolve(service.auth_config.v.path, env.fs).ok
       \/ env.fs[resolve(service.auth_config.v.path, env.fs).value] <= 0

SomeStepFails ==
    \/ service.target_domain \in env.unresolvable
    \/ HasOidc /\ ~env.oidc.ok
    \/ HasOidc /\ "JwtAuthentication" \in env.unencodable
    \/ AuthClusterFails
    \/ env.unencodable \cap {"Router", "StringValue", "Wasm", "HttpConnectionManager"} # {}
    \/ env.fs[WorkDir \o WASM_FILTER_PATH] = 0
    \/ AuthPluginFails

C4_AllOrNothing ==
    exported.run =>
        /\ SomeStepFails => (~exported.result.ok /\ Bundle = <<>>)
        /\ AuthClusterFails => ~exported.result.ok

\* The service cluster was built and pushed, then the billing/auth backend
\* cluster could not be built: export failed as a whole.
C4_Witness ==
    /\ Failed
    /\ AuthClusterFails
    /\ service.target_domain \notin env.unresolvable
    /\ ~HasOidc
    /\ Bundle = <<>>

(***************************************************************************)
(* C5. Importing an invalid configuration is rejected all-or-nothing: the  *)
(* failure is reported to the caller, the configuration imported before    *)
(* stays active and the execution context goes on answering match as       *)
(* before.                                                                 *)
(***************************************************************************)
C5_InvalidImportRejected ==
    (ret.op = "import_config" /\ ~Service_from_str(ret.config).ok) =>
        /\ ~ret.panic
        /\ ~panicked
        /\ ~ret.returned.some
        /\ CONFIG = ret.before

(***************************************************************************)
(* C6. match never fails, and it answers true exactly when some rule of    *)
(* proxy_rules has http_method equal to the method and pattern equal to    *)
(* the path; without such a rule it answers (false, "{}").  The rule       *)
(* {"/widgets", "GET", "hits", 1} gives (true, {"hits": 1}) for            *)
(* GET /widgets.                                                           *)
(***************************************************************************)
RuleFits(rule, method, path) == rule.http_method = method /\ rule.pattern = path

SomeRuleFits(rules, method, path) ==
    \E i \in DOMAIN rules : RuleFits(rules[i], method, path)

C6_MatchIffRule ==
    /\ ~panicked =>
          \A method \in Methods, path \in Paths :
              match_mapping_rule(CONFIG, method, path) # {}
    /\ ret.op = "match" =>
          /\ ret.matched <=> SomeRuleFits(CONFIG.proxy_rules, ret.method, ret.path)
          /\ ~SomeRuleFits(CONFIG.proxy_rules, ret.method, ret.path) =>
                (ret.matched = FALSE /\ ret.json = <<>>)
          /\ ( /\ CONFIG.proxy_rules = <<Rule("/widgets", "GET", "hits", 1)>>
               /\ ret.method = "GET" /\ ret.path = "/widgets" ) =>
                (ret.matched = TRUE /\ ret.json = << <<"hits", 1>> >>)

\* A POST rule on the requested path is configured, the request is a GET:
\* no match.
C6_Witness ==
    /\ ret.op = "match"
    /\ CONFIG.proxy_rules = <<Rule("/widgets", "POST", "writes", 2)>>
    /\ ret.method = "GET" /\ ret.path = "/widgets"
    /\ ret.matched = FALSE /\ ret.json = <<>>

(***************************************************************************)
(* C7. The metrics returned by match name exactly the metric_system_name   *)
(* of every matching rule, and the value of a name is the delta of the     *)
(* last matching rule with that name, not the sum.                         *)
(***************************************************************************)
FittingIndexes(rules, method, path) ==
    {i \in DOMAIN rules : RuleFits(rules[i], method, path)}

LastFitting(rules, method, path, name) ==
    CHOOSE i \in FittingIndexes(rules, method, path) :
        /\ rules[i].metric_system_name = name
        /\ \A k \in FittingIndexes(rules, method, path) :
              rules[k].metric_system_name = name => k <= i

C7_LastWriteWins ==
    ret.op = "match" =>
        LET rules == CONFIG.proxy_rules
            fit == FittingIndexes(rules, ret.method, ret.path)
        IN  /\ {ret.json[i][1] : i \in DOMAIN ret.json}
                  = {rules[i].metric_system_name : i \in fit}
            /\ Len(ret.json) = Cardinality({rules[i].metric_system_name : i \in fit})
            /\ \A i \in DOMAIN ret.json :
                  ret.json[i][2] =
                      rules[LastFitting(rules, ret.method, ret.path, ret.json[i][1])].delta

\* Two matching rules feed "hits" with deltas 1 then 5: the answer is 5.
C7_Witness ==
    /\ ret.op = "match"
    /\ CONFIG.proxy_rules = <<Rule("/widgets", "GET", "hits", 1), Rule("/widgets", "GET", "hits", 5)>>
    /\ ret.method = "GET" /\ ret.path = "/widgets"
    /\ ret.json = << <<"hits", 5>> >>

(***************************************************************************)
(* C8. A reader never observes a half-replaced configuration: what the     *)
(* cell holds, what get_config returns and what match works on is the      *)
(* default or, in every field, the Service of an import that completed.    *)
(* No import attempt finds the cell's guard held: every borrow is dropped  *)
(* inside the call that took it, so an import that parsed its document     *)
(* returns with the cell holding the Service it returned.                  *)
(***************************************************************************)
WholeConfig(c) == c = DefaultService \/ (installed.some /\ c = installed.v)

C8_NeverHalfReplaced ==
    /\ WholeConfig(CONFIG)
    /\ ret.op = "get_config" => WholeConfig(ret.value)
    /\ ret.op = "match" => WholeConfig(ret.used)
    /\ borrows = 0
    /\ ret.op = "import_config" =>
          /\ ~ret.guard_held
          /\ ~ret.panic => (ret.returned.some /\ CONFIG = ret.returned.v)

\* get_config returns, in every field, the Service of a completed import
\* that replaced the default.
C8_Witness ==
    /\ ret.op = "get_config"
    /\ installed.some
    /\ ret.value = installed.v
    /\ ret.value # DefaultService
    /\ Len(ret.value.proxy_rules) > 0

(***************************************************************************)
(* C9. The configuration embedded in the compiled metering filter is       *)
(* accepted by the data plane's import, and the imported configuration     *)
(* has the id, hosts, target_domain and proxy_rules of the compiled        *)
(* Service.                                                                *)
(***************************************************************************)
C9_RoundTrip ==
    (ret.op = "import_config" /\ ret.from_export) =>
        /\ ~ret.panic
        /\ ret.returned.some
        /\ ret.returned.v.id = service.id
        /\ ret.returned.v.hosts = service.hosts
        /\ ret.returned.v.target_domain = service.target_domain
        /\ ret.returned.v.proxy_rules = service.proxy_rules
        /\ CONFIG = ret.returned.v

(***************************************************************************)
(* C10. For the metering filter and for the billing/auth plugin, the       *)
(* sha256 of the descriptor is the lower-case hex digest of the bytes of   *)
(* the asset its URI names (http://control-plane-main:5001/static/<file>   *)
(* serves the file static/<file>).                                         *)
(***************************************************************************)
LowerHexDigits == {"0", "1", "2", "3", "4", "5", "6", "7", "8", "9", "a", "b", "c", "d", "e", "f"}

\* The bytes the server answers for a URI: the file at the URI's path.
ServedAsset(http_uri) ==
    IF resolve(http_uri.path, env.fs).ok
    THEN env.fs[resolve(http_uri.path, env.fs).value]
    ELSE 0

HashMatchesServedAsset(code) ==
    /\ ServedAsset(code.http_uri) > 0
    /\ Range(code.sha256) \subseteq LowerHexDigits
    /\ code.sha256 =
          to_lowercase(HEXUPPER_encode(sha256_digest(ServedAsset(code.http_uri)).value))

C10_HashOfServedAsset ==
    Succeeded =>
        \A i \in DOMAIN HttpFiltersOf(Bundle) :
            IsWasmFilter(HttpFiltersOf(Bundle)[i]) =>
                HashMatchesServedAsset(HttpFiltersOf(Bundle)[i].value.code)

(***************************************************************************)
(* C11. Every failure of export is tagged with the owning service id:      *)
(* whichever step fails, the error export returns carries a context that   *)
(* names the service id.                                                   *)
(***************************************************************************)
\* The contexts of export that name the service id.
ServiceContexts(id) ==
    { "failed to export cluster for service " \o ToString(id),
      "failed to export listener for service " \o ToString(id) }

TaggedWithService(chain, id) == \E i \in DOMAIN chain : chain[i] \in ServiceContexts(id)

C11_FailureTagged ==
    Failed => TaggedWithService(exported.result.err, service.id)

\* The failures that do pass through a with_context of export: the service
\* cluster and everything inside export_listener.
C11_TaggedSteps ==
    ( /\ Failed
      /\ ~(HasOidc /\ ~env.oidc.ok)
      /\ ~(HasOidc /\ "JwtAuthentication" \in env.unencodable)
      /\ ~AuthClusterFails )
        => TaggedWithService(exported.result.err, service.id)

====
